---- MODULE Spec2Model ----
(***************************************************************************)
(* A model of cms/static/js/views/settings/advanced.js: the advanced       *)
(* settings view (AdvancedView).  Texts and keys are strings; JSON values  *)
(* are records of one shape, so that any two of them can be compared.      *)
(***************************************************************************)
EXTENDS Integers, Sequences, FiniteSets, Bags, TLC

(***************************************************************************)
(* Strings                                                                 *)
(***************************************************************************)

\* The i-th character of s as a one-character string ("" outside s), as
\* String.prototype.substring(i-1, i) gives it.
Ch(s, i) == IF i >= 1 /\ i <= Len(s) THEN SubSeq(s, i, i) ELSE ""

\* s from its i-th character on.
From(s, i) == IF i > Len(s) THEN "" ELSE SubSeq(s, i, Len(s))

\* Whether lit occurs in s at position i.
StartsWithAt(s, i, lit) ==
    /\ i >= 1
    /\ i + Len(lit) - 1 <= Len(s)
    /\ SubSeq(s, i, i + Len(lit) - 1) = lit

\* The first position from i on at which lit occurs in s, 0 when there is none.
RECURSIVE IndexFrom(_, _, _)
IndexFrom(s, lit, i) ==
    IF i + Len(lit) - 1 > Len(s) THEN 0
    ELSE IF SubSeq(s, i, i + Len(lit) - 1) = lit THEN i
    ELSE IndexFrom(s, lit, i + 1)

\* s.indexOf(lit) + 1
IndexOf(s, lit) == IndexFrom(s, lit, 1)

\* The characters $.trim removes at both ends.
TrimWS == {" ", "\n", "\t", "\r", "\f"}

RECURSIVE TrimLeft(_)
TrimLeft(s) == IF Len(s) > 0 /\ Ch(s, 1) \in TrimWS THEN TrimLeft(From(s, 2)) ELSE s

RECURSIVE TrimRight(_)
TrimRight(s) ==
    IF Len(s) > 0 /\ Ch(s, Len(s)) \in TrimWS
    THEN TrimRight(IF Len(s) = 1 THEN "" ELSE SubSeq(s, 1, Len(s) - 1))
    ELSE s

Trim(s) == TrimRight(TrimLeft(s))

\* A string of n spaces.
RECURSIVE Spaces(_)
Spaces(n) == IF n <= 0 THEN "" ELSE " " \o Spaces(n - 1)

(***************************************************************************)
(* JSON values                                                             *)
(***************************************************************************)

Undef     == [t |-> "undefined", b |-> FALSE, n |-> 0, s |-> "", e |-> <<>>]
JNull     == [t |-> "null", b |-> FALSE, n |-> 0, s |-> "", e |-> <<>>]
JBool(b)  == [t |-> "boolean", b |-> b, n |-> 0, s |-> "", e |-> <<>>]
JNum(n)   == [t |-> "number", b |-> FALSE, n |-> n, s |-> "", e |-> <<>>]
JStr(s)   == [t |-> "string", b |-> FALSE, n |-> 0, s |-> s, e |-> <<>>]
\* The members of an array or object are records [k, v]; k is "" in an array.
JArr(e)   == [t |-> "array", b |-> FALSE, n |-> 0, s |-> "", e |-> e]
JObj(e)   == [t |-> "object", b |-> FALSE, n |-> 0, s |-> "", e |-> e]
Member(k, v) == [k |-> k, v |-> v]

\* obj[k] = v on the member list of an object: a key already present keeps
\* its place and takes the new value.
PutMember(e, k, v) ==
    IF \E i \in 1..Len(e) : e[i].k = k
    THEN [i \in 1..Len(e) |-> IF e[i].k = k THEN Member(k, v) ELSE e[i]]
    ELSE Append(e, Member(k, v))

(***************************************************************************)
(* JSON.parse.  Numbers are integers: the texts of this model put no '.',  *)
(* 'e' or 'E' after a digit.  \u escapes are not among the texts either.   *)
(***************************************************************************)

JsonWS == {" ", "\n", "\t", "\r"}
DigitChars == "0123456789"
DigitValues == [c \in {Ch(DigitChars, i) : i \in 1..Len(DigitChars)} |-> IndexOf(DigitChars, c) - 1]
IsDigit(c) == c \in DOMAIN DigitValues
DigitVal(c) == DigitValues[c]
\* Characters that may not appear raw inside a JSON string literal.
ControlChars == {"\n", "\t", "\r", "\f"}

ParseFail == [ok |-> FALSE, v |-> Undef, i |-> 0]
ParseOk(v, i) == [ok |-> TRUE, v |-> v, i |-> i]

RECURSIVE SkipWs(_, _)
SkipWs(s, i) == IF Ch(s, i) \in JsonWS THEN SkipWs(s, i + 1) ELSE i

\* The character an escape \c stands for ("" when \c is no escape).
Unescape(c) ==
    CASE c = "\"" -> "\""
      [] c = "\\" -> "\\"
      [] c = "/"  -> "/"
      [] c = "n"  -> "\n"
      [] c = "t"  -> "\t"
      [] c = "r"  -> "\r"
      [] c = "f"  -> "\f"
      [] OTHER    -> ""

\* The rest of a string literal, from position i (after the opening quote).
RECURSIVE ParseStringBody(_, _, _)
ParseStringBody(s, i, acc) ==
    LET c == Ch(s, i) IN
    IF c = "" THEN ParseFail
    ELSE IF c = "\"" THEN ParseOk(JStr(acc), i + 1)
    ELSE IF c = "\\" THEN
        IF Unescape(Ch(s, i + 1)) = "" THEN ParseFail
        ELSE ParseStringBody(s, i + 2, acc \o Unescape(Ch(s, i + 1)))
    ELSE IF c \in ControlChars THEN ParseFail
    ELSE ParseStringBody(s, i + 1, acc \o c)

RECURSIVE ParseDigits(_, _, _)
ParseDigits(s, i, acc) ==
    IF IsDigit(Ch(s, i)) THEN ParseDigits(s, i + 1, 10 * acc + DigitVal(Ch(s, i)))
    ELSE [n |-> acc, i |-> i]

\* -?(0|[1-9][0-9]*)
ParseNumber(s, i) ==
    LET neg == Ch(s, i) = "-"
        j   == IF neg THEN i + 1 ELSE i
    IN  IF ~IsDigit(Ch(s, j)) THEN ParseFail
        ELSE IF Ch(s, j) = "0" THEN ParseOk(JNum(0), j + 1)
        ELSE LET d == ParseDigits(s, j, 0)
             IN  ParseOk(JNum(IF neg THEN 0 - d.n ELSE d.n), d.i)

RECURSIVE ParseValue(_, _)
RECURSIVE ParseElements(_, _, _)
RECURSIVE ParseMembers(_, _, _)

\* A value starting at position i, which is not white space.
ParseValue(s, i) ==
    LET c == Ch(s, i) IN
    IF c = "{" THEN
        LET j == SkipWs(s, i + 1)
        IN  IF Ch(s, j) = "}" THEN ParseOk(JObj(<<>>), j + 1)
            ELSE ParseMembers(s, j, <<>>)
    ELSE IF c = "[" THEN
        LET j == SkipWs(s, i + 1)
        IN  IF Ch(s, j) = "]" THEN ParseOk(JArr(<<>>), j + 1)
            ELSE ParseElements(s, j, <<>>)
    ELSE IF c = "\"" THEN ParseStringBody(s, i + 1, "")
    ELSE IF c = "-" \/ IsDigit(c) THEN ParseNumber(s, i)
    ELSE IF StartsWithAt(s, i, "true") THEN ParseOk(JBool(TRUE), i + 4)
    ELSE IF StartsWithAt(s, i, "false") THEN ParseOk(JBool(FALSE), i + 5)
    ELSE IF StartsWithAt(s, i, "null") THEN ParseOk(JNull, i + 4)
    ELSE ParseFail

\* The elements of an array from position i, where an element starts.
ParseElements(s, i, acc) ==
    LET r == ParseValue(s, i) IN
    IF ~r.ok THEN ParseFail
    ELSE LET j    == SkipWs(s, r.i)
             acc2 == Append(acc, Member("", r.v))
         IN  IF Ch(s, j) = "," THEN ParseElements(s, SkipWs(s, j + 1), acc2)
             ELSE IF Ch(s, j) = "]" THEN ParseOk(JArr(acc2), j + 1)
             ELSE ParseFail

\* The members of an object from position i, where a key starts.
ParseMembers(s, i, acc) ==
    IF Ch(s, i) # "\"" THEN ParseFail
    ELSE LET k == ParseStringBody(s, i + 1, "") IN
         IF ~k.ok THEN ParseFail
         ELSE LET j == SkipWs(s, k.i) IN
              IF Ch(s, j) # ":" THEN ParseFail
              ELSE LET r == ParseValue(s, SkipWs(s, j + 1)) IN
                   IF ~r.ok THEN ParseFail
                   ELSE LET acc2 == PutMember(acc, k.v.s, r.v)
                            j2   == SkipWs(s, r.i)
                        IN  IF Ch(s, j2) = "," THEN ParseMembers(s, SkipWs(s, j2 + 1), acc2)
                            ELSE IF Ch(s, j2) = "}" THEN ParseOk(JObj(acc2), j2 + 1)
                            ELSE ParseFail

\* JSON.parse(s): ok is FALSE where JSON.parse throws a SyntaxError.
JSONParse(s) ==
    LET r == ParseValue(s, SkipWs(s, 1))
    IN  IF r.ok /\ SkipWs(s, r.i) = Len(s) + 1 THEN r ELSE ParseFail

(***************************************************************************)
(* JSON.stringify(value, null, 4)                                          *)
(***************************************************************************)

RECURSIVE NatToString(_)
NatToString(n) ==
    IF n < 10 THEN Ch(DigitChars, n + 1)
    ELSE NatToString(n \div 10) \o Ch(DigitChars, (n % 10) + 1)

NumberToString(n) == IF n < 0 THEN "-" \o NatToString(0 - n) ELSE NatToString(n)

EscapeChar(c) ==
    CASE c = "\"" -> "\\\""
      [] c = "\\" -> "\\\\"
      [] c = "\n" -> "\\n"
      [] c = "\t" -> "\\t"
      [] c = "\r" -> "\\r"
      [] c = "\f" -> "\\f"
      [] OTHER    -> c

RECURSIVE EscapeString(_)
EscapeString(s) == IF s = "" THEN "" ELSE EscapeChar(Ch(s, 1)) \o EscapeString(From(s, 2))

QuoteString(s) == "\"" \o EscapeString(s) \o "\""

RECURSIVE StringifyAt(_, _)
RECURSIVE StringifyMembers(_, _, _)

\* The members e of an array (isObj FALSE) or object, one per line at indent ind.
StringifyMembers(e, isObj, ind) ==
    IF e = <<>> THEN ""
    ELSE Spaces(ind)
         \o (IF isObj THEN QuoteString(e[1].k) \o ": " ELSE "")
         \o StringifyAt(e[1].v, ind)
         \o (IF Len(e) > 1 THEN ",\n" ELSE "\n")
         \o StringifyMembers(Tail(e), isObj, ind)

\* The text of v, nested at indent ind.
StringifyAt(v, ind) ==
    CASE v.t = "null"    -> "null"
      [] v.t = "boolean" -> (IF v.b THEN "true" ELSE "false")
      [] v.t = "number"  -> NumberToString(v.n)
      [] v.t = "string"  -> QuoteString(v.s)
      [] v.t = "array"   -> (IF v.e = <<>> THEN "[]"
                             ELSE "[\n" \o StringifyMembers(v.e, FALSE, ind + 4) \o Spaces(ind) \o "]")
      [] v.t = "object"  -> (IF v.e = <<>> THEN "{}"
                             ELSE "{\n" \o StringifyMembers(v.e, TRUE, ind + 4) \o Spaces(ind) \o "}")
      [] OTHER           -> "null"

\* What the template prints for JSON.stringify(v, null, 4): JSON.stringify
\* gives undefined for undefined, which the template prints as no text.
StringifyPretty(v) == IF v.t = "undefined" THEN "" ELSE StringifyAt(v, 0)

(***************************************************************************)
(* The settings model (CMS.Models.Settings.Advanced): its attributes, in   *)
(* the order of _.keys, each a descriptor.  The value of the reserved key  *)
(* us_state is an object from state code to {number, provider, approved}.  *)
(***************************************************************************)

Descriptor(k, dn, dep, et, vals, v) ==
    [k |-> k, display_name |-> dn, deprecated |-> dep, editor_type |-> et,
     values |-> vals, value |-> v]

\* obj[k] of a JSON object, undefined when obj has no such member.
GetMember(obj, k) ==
    IF obj.t = "object" /\ \E i \in 1..Len(obj.e) : obj.e[i].k = k
    THEN obj.e[CHOOSE i \in 1..Len(obj.e) : obj.e[i].k = k].v
    ELSE Undef

HasMember(obj, k) == obj.t = "object" /\ \E i \in 1..Len(obj.e) : obj.e[i].k = k

\* _.keys of a JSON object.
MemberKeys(obj) == [i \in 1..Len(obj.e) |-> obj.e[i].k]

\* model.attributes has the key.
HasKey(m, key) == \E i \in 1..Len(m) : m[i].k = key

\* model.get(key)
Get(m, key) == m[CHOOSE i \in 1..Len(m) : m[i].k = key]

\* The model after modelVal.value = v; model.set(key, modelVal).
SetValue(m, key, v) ==
    [i \in 1..Len(m) |-> IF m[i].k = key THEN [m[i] EXCEPT !.value = v] ELSE m[i]]

\* SetStateSub with the state's entry replaced by one of the sub-field alone.
SetStateSub_ReplacesEntry(m, state, sub, v) ==
    LET us == Get(m, "us_state").value
    IN  SetValue(m, "us_state", JObj(PutMember(us.e, state, JObj(<<Member(sub, v)>>))))

\* The model after us_state.value[state][sub] = v; model.set('us_state', ...).
SetStateSub(m, state, sub, v) ==
    LET us  == Get(m, "us_state").value
        ent == GetMember(us, state)
    IN  SetValue(m, "us_state",
                 JObj(PutMember(us.e, state, JObj(PutMember(ent.e, sub, v)))))

(***************************************************************************)
(* The server's models this development starts from.                       *)
(***************************************************************************)

UsState(e) == Descriptor("us_state", "US States", FALSE, "json", <<>>, JObj(e))

StateCA == JObj(<<Member("number", JNum(1)), Member("provider", JStr("p"))>>)
StateNY == JObj(<<Member("number", JNum(2)), Member("provider", JNull),
                  Member("approved", JBool(FALSE))>>)

\* A plain key, a deprecated key and one state row whose approved is absent.
ModelPlain ==
    << Descriptor("adv", "B", FALSE, "json", <<>>, JNum(1)),
       Descriptor("old", "A", TRUE, "json", <<>>, JStr("x")),
       UsState(<<Member("CA", StateCA)>>) >>

\* A key shown as a dropdown and a key without a value; no state rows.
ModelSelect ==
    << UsState(<<>>),
       Descriptor("mode", "M", FALSE, "select", <<"x", "y">>, JStr("x")),
       Descriptor("nil", "N", FALSE, "json", <<>>, Undef) >>

\* Keys that contain one of the state suffixes, and a state code that is
\* such a key without the suffix.
ModelSuffix ==
    << Descriptor("a-number-b", "K", FALSE, "json", <<>>, JNum(1)),
       Descriptor("CA-provider", "J", FALSE, "json", <<>>, JNum(2)),
       UsState(<<Member("CA", StateCA),
                 Member("a-b", JObj(<<Member("approved", JNull)>>))>>) >>

\* Three state rows, one of a code that usStateDict does not name.
ModelStates ==
    << UsState(<<Member("NY", StateNY),
                 Member("AK", JObj(<<Member("approved", JStr(""))>>)),
                 Member("CA", StateCA)>>) >>

ServerModels == {ModelPlain, ModelSelect, ModelSuffix, ModelStates}

\* The views of the behaviours of the whole view: a model and the flag.
Views == {<<ModelPlain, FALSE>>, <<ModelPlain, TRUE>>, <<ModelSelect, FALSE>>}

\* The views of the behaviours of one commit.
CommitViews == ServerModels \X BOOLEAN

\* option.usStateDict: the display names of the state codes.
UsStateDict == [code \in {"CA", "NY"} |-> IF code = "CA" THEN "California" ELSE "New York"]

\* gettext: the catalog's translation of a message, the message itself
\* when the catalog has none, undefined for undefined.
Gettext(msg) == msg

(***************************************************************************)
(* _.sortBy                                                                *)
(***************************************************************************)

\* The characters of the model's keys and names, in code-unit order.
CharOrder == " -0123456789ABCDEFGHIJKLMNOPQRSTUVWXYZ_abcdefghijklmnopqrstuvwxyz"

CharRank == [c \in {Ch(CharOrder, i) : i \in 1..Len(CharOrder)} |-> IndexOf(CharOrder, c)]

RECURSIVE StringLess(_, _)
StringLess(a, b) ==
    IF b = "" THEN FALSE
    ELSE IF a = "" THEN TRUE
    ELSE IF Ch(a, 1) = Ch(b, 1) THEN StringLess(From(a, 2), From(b, 2))
    ELSE CharRank[Ch(a, 1)] < CharRank[Ch(b, 1)]

\* a < b on the criteria of _.sortBy, which are strings or undefined.
CriterionLess(a, b) == a.t = "string" /\ b.t = "string" /\ StringLess(a.s, b.s)

\* The comparator of _.sortBy says that an item of criterion a, earlier in
\* the list, stays before an item of criterion b.
StaysBefore(a, b) ==
    ~(a # b /\ (CriterionLess(b, a) \/ a.t = "undefined"))

\* Insert item x (a record whose field c is its criterion), which came
\* later in the list than every item of the sorted sequence, behind the
\* items it does not precede.
RECURSIVE SortInsert(_, _)
SortInsert(sorted, x) ==
    IF sorted = <<>> THEN <<x>>
    ELSE LET last == sorted[Len(sorted)]
         IN  IF StaysBefore(last.c, x.c) THEN Append(sorted, x)
             ELSE Append(SortInsert(SubSeq(sorted, 1, Len(sorted) - 1), x), last)

\* _.sortBy on a list of records [x |-> item, c |-> criterion]: stable.
RECURSIVE SortPairs(_)
SortPairs(list) ==
    IF list = <<>> THEN <<>>
    ELSE SortInsert(SortPairs(SubSeq(list, 1, Len(list) - 1)), list[Len(list)])

\* _.sortBy(_.keys(model.attributes), key => model.get(key).display_name)
SortedKeys(m) ==
    LET sorted == SortPairs([i \in 1..Len(m) |-> [x |-> m[i].k, c |-> JStr(m[i].display_name)]])
    IN  [i \in 1..Len(sorted) |-> sorted[i].x]

\* _.sortBy(_.keys(usStateValues), key => gettext(usStateDict[key]))
SortedStates(us) ==
    LET crit(code) == IF code \in DOMAIN UsStateDict THEN JStr(Gettext(UsStateDict[code]))
                      ELSE Undef
        keys   == MemberKeys(us)
        sorted == SortPairs([i \in 1..Len(keys) |-> [x |-> keys[i], c |-> crit(keys[i])]])
    IN  [i \in 1..Len(sorted) |-> sorted[i].x]

(***************************************************************************)
(* The view.  A row is what one template call appends to the list; an      *)
(* editor is one value field of a row: a textarea of class json, with the  *)
(* CodeMirror instances attached to it, or a select.                       *)
(***************************************************************************)

VARIABLES
    render_deprecated,   \* the view's render_deprecated flag
    model,               \* this.model.attributes
    server,              \* the model the server has persisted
    rows,                \* the rows of .course-advanced-policy-list, in order
    editors,             \* the value fields of the rows, in order
    fieldToSelectorMap,  \* this.fieldToSelectorMap
    selectorToField,     \* this.selectorToField
    idCounter,           \* the counter of _.uniqueId
    focus,               \* the index of the focused editor, 0 for none
    notice,              \* the notification last shown: none, unsaved, saved
    dialog,              \* the ValidationErrorModal last shown
    net,                 \* the requests and responses in flight
    last,                \* the handler that ran last, and the calls it made
    dirty,               \* the unsaved-changes notice was shown since the last render
    edited,              \* an edit changed the model since the last render
    stats                \* how many edits, saves and reverts the user has made

vars == <<render_deprecated, model, server, rows, editors, fieldToSelectorMap,
          selectorToField, idCounter, focus, notice, dialog, net, last, dirty,
          edited, stats>>

EmptyMap == [x \in {} |-> ""]
MapPut(f, k, v) == [x \in DOMAIN f \cup {k} |-> IF x = k THEN v ELSE f[x]]

\* _.uniqueId(prefix), the counter already incremented to n.
UniqueId(prefix, n) == prefix \o NatToString(n)

\* The id attribute the templates give the .key element of a row: the
\* model key on a generic row, the state code and a suffix on a state row.
GenericFieldId(key) == key
StateFieldId(code, sub) == code \o "-" \o sub

\* The text <%- x %> prints for a value that is not an object.
TemplateText(v) ==
    CASE v.t = "boolean" -> (IF v.b THEN "true" ELSE "false")
      [] v.t = "number"  -> NumberToString(v.n)
      [] v.t = "string"  -> v.s
      [] OTHER           -> ""

\* Whether the generic template shows the value as a dropdown.
HasSelect(d) == d.editor_type = "select"

NewEditor(id, isSelect, text, options) ==
    [id |-> id, select |-> isSelect, text |-> text, oldValue |-> "", cm |-> 0,
     options |-> options]

\* renderTemplate(key, model) and the append of its element, on the view
\* state st = [rows, editors, f2s, s2f, ctr].
renderTemplate(st, key, d) ==
    LET newKeyId == UniqueId("policy_key_", st.ctr + 1)
        valueId  == UniqueId("policy_value_", st.ctr + 2)
        text     == IF HasSelect(d) THEN TemplateText(d.value) ELSE StringifyPretty(d.value)
    IN  [rows    |-> Append(st.rows,
                        [kind |-> "generic", key |-> key, display_name |-> d.display_name,
                         keyIds |-> <<newKeyId>>, valueIds |-> <<valueId>>,
                         valueApproved |-> Undef]),
         editors |-> Append(st.editors,
                        NewEditor(GenericFieldId(key), HasSelect(d), text, d.values)),
         f2s     |-> MapPut(st.f2s, key, newKeyId),
         s2f     |-> MapPut(st.s2f, newKeyId, key),
         ctr     |-> st.ctr + 2]

\* ApprovedOrDefault with the default for every value that is falsy.
ApprovedOrDefault_Falsy(approvedVal) ==
    IF approvedVal \in {JStr(""), JNull, JBool(FALSE), JNum(0)} \/ approvedVal.t = "undefined"
    THEN JBool(TRUE) ELSE approvedVal

\* valueApproved of renderUsState.
ApprovedOrDefault(approvedVal) ==
    IF approvedVal = JStr("") \/ approvedVal = JNull \/ approvedVal.t = "undefined"
    THEN JBool(TRUE) ELSE approvedVal

\* The body of the _.each of renderUsState for one state code.
renderUsStateRow(st, code, usStateValues) ==
    LET newKeyIdNumber   == UniqueId("policy_key_", st.ctr + 1)
        newKeyIdProvider == UniqueId("policy_key_", st.ctr + 2)
        newKeyIdApproved == UniqueId("policy_key_", st.ctr + 3)
        ent              == GetMember(usStateValues, code)
        approvedVal      == GetMember(ent, "approved")
        valueApproved    == ApprovedOrDefault(approvedVal)
        f2s1 == MapPut(st.f2s, code \o "-number", newKeyIdNumber)
        f2s2 == MapPut(f2s1, code \o "-provider", newKeyIdProvider)
        f2s3 == MapPut(f2s2, code \o "-approved", newKeyIdApproved)
        s2f1 == MapPut(st.s2f, newKeyIdNumber, code \o "-number")
        s2f2 == MapPut(s2f1, newKeyIdProvider, code \o "-provider")
        s2f3 == MapPut(s2f2, newKeyIdApproved, code \o "-approved")
    IN  [rows    |-> Append(st.rows,
                        [kind |-> "us_state", key |-> code,
                         display_name |-> IF code \in DOMAIN UsStateDict
                                          THEN UsStateDict[code] ELSE code,
                         keyIds |-> <<newKeyIdNumber, newKeyIdProvider, newKeyIdApproved>>,
                         valueIds |-> <<UniqueId("policy_value_", st.ctr + 4),
                                        UniqueId("policy_value_", st.ctr + 5),
                                        UniqueId("policy_value_", st.ctr + 6)>>,
                         valueApproved |-> valueApproved]),
         editors |-> st.editors \o
                     << NewEditor(StateFieldId(code, "number"), FALSE,
                                  StringifyPretty(GetMember(ent, "number")), <<>>),
                        NewEditor(StateFieldId(code, "provider"), FALSE,
                                  StringifyPretty(GetMember(ent, "provider")), <<>>),
                        NewEditor(StateFieldId(code, "approved"), FALSE,
                                  TemplateText(valueApproved), <<>>) >>,
         f2s     |-> f2s3,
         s2f     |-> s2f3,
         ctr     |-> st.ctr + 6]

RECURSIVE renderUsStateEach(_, _, _)
renderUsStateEach(st, codes, usStateValues) ==
    IF codes = <<>> THEN st
    ELSE renderUsStateEach(renderUsStateRow(st, Head(codes), usStateValues),
                           Tail(codes), usStateValues)

renderUsState(st, m) ==
    LET usStateValues == Get(m, "us_state").value
    IN  renderUsStateEach(st, SortedStates(usStateValues), usStateValues)

\* ShowsKey without the test of deprecated.
ShowsKey_Deprecated(m, key, rd) == key # "us_state"

\* Whether render shows the key as a generic row.
ShowsKey(m, key, rd) == key # "us_state" /\ (rd \/ ~Get(m, key).deprecated)

\* The _.each of render over the sorted keys.
RECURSIVE renderEach(_, _, _, _)
renderEach(st, keys, m, rd) ==
    IF keys = <<>> THEN st
    ELSE renderEach(IF ShowsKey(m, Head(keys), rd)
                    THEN renderTemplate(st, Head(keys), Get(m, Head(keys)))
                    ELSE st,
                    Tail(keys), m, rd)

\* attachJSONEditor without the test of a CodeMirror peer.
attachJSONEditor_NoGuard(ed) == [ed EXCEPT !.oldValue = ed.text, !.cm = @ + 1]

\* attachJSONEditor(textarea) on one field.
attachJSONEditor(ed) ==
    IF ed.cm > 0 THEN ed
    ELSE [ed EXCEPT !.oldValue = ed.text, !.cm = 1]

\* render(): the list emptied, both maps cleared, the rows of the model
\* appended, an editor attached to every textarea of class json.
Render(m, rd, ctr) ==
    LET st0 == [rows |-> <<>>, editors |-> <<>>, f2s |-> EmptyMap, s2f |-> EmptyMap,
                ctr |-> ctr]
        st1 == renderEach(st0, SortedKeys(m), m, rd)
        st2 == renderUsState(st1, m)
    IN  [st2 EXCEPT !.editors =
            [i \in 1..Len(st2.editors) |->
                IF st2.editors[i].select THEN st2.editors[i]
                ELSE attachJSONEditor(st2.editors[i])]]

(***************************************************************************)
(* Bounds and inputs                                                       *)
(***************************************************************************)

\* How many saves the user asks for where saves may overlap.
MaxOverlap == 2

\* How many times the user enters a field or changes a dropdown.
MaxEdits == 2
\* How many times the user invokes saveView and revertView.
MaxSaves == 1
MaxReverts == 1
\* The longest text of the exhaustive set of committed texts.
MaxLen == 3

\* The texts the user types in the view's behaviours.
EditTexts == {"2", "'a"}

\* The characters of the exhaustive texts.
Alphabet == {"a", "1", " ", "\"", "'", "[", "\\"}

RECURSIVE TextsUpTo(_)
TextsUpTo(n) ==
    IF n = 0 THEN {""}
    ELSE LET shorter == TextsUpTo(n - 1)
         IN  shorter \cup {t \o c : t \in shorter, c \in Alphabet}

\* Longer texts, among them the examples of the specification.
SampleTexts ==
    {"abc", "'abc", "{\"a\":1}", "  {\"a\": [true, null]}\n", "[1, 2]", "{a:1}",
     "[1,", "a\\nb", "a\nb", "\"x\" y", "false", "-12", "nul", "{\"a\":1,\"a\":2}"}

AllTexts == TextsUpTo(MaxLen) \cup SampleTexts

\* The bodies of a failed save's response.
ErrorBodies == {"{\"adv\": \"bad\"}", "<html>"}
\* The statuses of a failed save.
ErrorStatuses == {400, 500}
\* The parsed bodies of the reindex request's response.
ReindexResponses ==
    {JObj(<<Member("status", JNum(200))>>), JObj(<<Member("status", JNum(500))>>),
     JObj(<<>>)}

(***************************************************************************)
(* The handlers                                                            *)
(***************************************************************************)

Handler(op, calls) ==
    [op |-> op, calls |-> calls, id |-> "", text |-> "", value |-> Undef,
     stored |-> FALSE, status |-> 0]

Msg(type, payload, status, text, resp) ==
    [type |-> type, payload |-> payload, status |-> status, text |-> text, resp |-> resp]
Request(type, payload) == Msg(type, payload, 0, "", Undef)

NoDialog == [shown |-> FALSE, content |-> Undef, reset |-> FALSE]

Has(calls, c) == \E i \in 1..Len(calls) : calls[i] = c

\* key.replace(lit, ""): the first occurrence of lit removed.
RemoveFirst(s, lit) ==
    LET i == IndexOf(s, lit)
    IN  IF i = 0 THEN s
        ELSE (IF i = 1 THEN "" ELSE SubSeq(s, 1, i - 1)) \o From(s, i + Len(lit))

\* /lit/.test(key)
Matches(key, lit) == IndexOf(key, lit) > 0

\* The sub-field of us_state the blur handler routes the id to ("" for the
\* else branch, the key itself).
RouteSub(key) ==
    IF Matches(key, "-number") THEN "number"
    ELSE IF Matches(key, "-provider") THEN "provider"
    ELSE IF Matches(key, "-approved") THEN "approved"
    ELSE ""

\* ParseOrQuote without the test of the first character.
ParseOrQuote_AlwaysQuotes(stringValue) ==
    LET first  == JSONParse(stringValue)
        quoted == "\"" \o stringValue \o "\""
        second == JSONParse(quoted)
    IN  IF first.ok THEN [JSONValue |-> first.v, text |-> stringValue, quoted |-> FALSE]
        ELSE IF second.ok THEN [JSONValue |-> second.v, text |-> quoted, quoted |-> TRUE]
        ELSE [JSONValue |-> Undef, text |-> stringValue, quoted |-> FALSE]

\* The try/catch of the blur handler on the trimmed text: the value and
\* the text the editor is left with.
ParseOrQuote(stringValue) ==
    LET first         == JSONParse(stringValue)
        firstNonWhite == Ch(stringValue, 1)
        quoted        == "\"" \o stringValue \o "\""
        second        == JSONParse(quoted)
    IN  IF first.ok THEN [JSONValue |-> first.v, text |-> stringValue, quoted |-> FALSE]
        ELSE IF firstNonWhite # "{" /\ firstNonWhite # "[" /\ firstNonWhite # "'"
                /\ second.ok
             THEN [JSONValue |-> second.v, text |-> quoted, quoted |-> TRUE]
        ELSE [JSONValue |-> Undef, text |-> stringValue, quoted |-> FALSE]

\* The model after the blur handler's if (JSONValue !== undefined) {...}
\* for the row id key; threw when the handler ends in a TypeError.
StoreValue(m, key, JSONValue) ==
    LET sub  == RouteSub(key)
        code == RemoveFirst(key, "-" \o sub)
    IN  IF JSONValue.t = "undefined" THEN [model |-> m, stored |-> FALSE, threw |-> FALSE]
        ELSE IF sub # "" THEN
            IF HasMember(Get(m, "us_state").value, code)
            THEN [model |-> SetStateSub(m, code, sub, JSONValue), stored |-> TRUE,
                  threw |-> FALSE]
            ELSE [model |-> m, stored |-> FALSE, threw |-> TRUE]
        ELSE IF HasKey(m, key)
            THEN [model |-> SetValue(m, key, JSONValue), stored |-> TRUE, threw |-> FALSE]
            ELSE [model |-> m, stored |-> FALSE, threw |-> TRUE]

\* blurHandler without $.trim.
blurHandler_NoTrim(ed, m) ==
    LET parsed == ParseOrQuote(ed.text)
        store  == StoreValue(m, ed.id, parsed.JSONValue)
    IN  [text   |-> parsed.text,
         shown  |-> parsed.text # ed.oldValue,
         quoted |-> parsed.quoted,
         value  |-> parsed.JSONValue,
         model  |-> store.model,
         stored |-> store.stored,
         threw  |-> store.threw]

\* The blur handler of attachJSONEditor on editor ed.  shown: one of its
\* setValue calls made the change handler show the notification bar.
blurHandler(ed, m) ==
    LET stringValue == Trim(ed.text)
        parsed      == ParseOrQuote(stringValue)
        store       == StoreValue(m, ed.id, parsed.JSONValue)
    IN  [text   |-> parsed.text,
         shown  |-> stringValue # ed.oldValue \/ parsed.text # ed.oldValue,
         quoted |-> parsed.quoted,
         value  |-> parsed.JSONValue,
         model  |-> store.model,
         stored |-> store.stored,
         threw  |-> store.threw]

(***************************************************************************)
(* Init: initialize(), which renders the model the page was loaded with.   *)
(***************************************************************************)

InitFrom(views) ==
    /\ \E view \in views :
          /\ server = view[1]
          /\ render_deprecated = view[2]
    /\ model = server
    /\ \E r \in {Render(model, render_deprecated, 0)} :
          /\ rows = r.rows
          /\ editors = r.editors
          /\ fieldToSelectorMap = r.f2s
          /\ selectorToField = r.s2f
          /\ idCounter = r.ctr
    /\ focus = 0
    /\ notice = "none"
    /\ dialog = NoDialog
    /\ net = EmptyBag
    /\ last = Handler("initialize", <<"render">>)
    /\ dirty = FALSE
    /\ edited = FALSE
    /\ stats = [edits |-> 0, saves |-> 0, reverts |-> 0]

Init == InitFrom(Views)
InitCommit == InitFrom(CommitViews)

\* The part of a step that is this.render().
\* RenderNow with the ids of the list it empties left in both maps.
RenderNow_KeepsMaps(m) ==
    \E r \in {Render(m, render_deprecated, idCounter)} :
        /\ rows' = r.rows
        /\ editors' = r.editors
        /\ fieldToSelectorMap' =
              [f \in DOMAIN fieldToSelectorMap \cup DOMAIN r.f2s |->
                  IF f \in DOMAIN r.f2s THEN r.f2s[f] ELSE fieldToSelectorMap[f]]
        /\ selectorToField' =
              [x \in DOMAIN selectorToField \cup DOMAIN r.s2f |->
                  IF x \in DOMAIN r.s2f THEN r.s2f[x] ELSE selectorToField[x]]
        /\ idCounter' = r.ctr
        /\ focus' = 0
        /\ dirty' = FALSE
        /\ edited' = FALSE

RenderNow(m) ==
    \E r \in {Render(m, render_deprecated, idCounter)} :
        /\ rows' = r.rows
        /\ editors' = r.editors
        /\ fieldToSelectorMap' = r.f2s
        /\ selectorToField' = r.s2f
        /\ idCounter' = r.ctr
        /\ focus' = 0
        /\ dirty' = FALSE
        /\ edited' = FALSE

NoRender ==
    UNCHANGED <<rows, fieldToSelectorMap, selectorToField, idCounter>>

(***************************************************************************)
(* The user's actions                                                      *)
(***************************************************************************)

\* The user is in the JSON editor of field i, or enters it now (the focus
\* handler only marks the label): at most max times.
InEditor(i, max) ==
    \/ focus = i
    \/ /\ focus = 0
       /\ ~editors[i].select
       /\ editors[i].cm > 0
       /\ stats.edits < max

Entered(i) == IF focus = i THEN stats ELSE [stats EXCEPT !.edits = @ + 1]

\* The user changes the text of the editor of field i to text: the change
\* handler of attachJSONEditor.
TypeText(i, text, max) ==
    /\ InEditor(i, max)
    /\ text # editors[i].text
    /\ editors' = [editors EXCEPT ![i].text = text]
    /\ IF text # editors[i].oldValue
       THEN /\ notice' = "unsaved"
            /\ dirty' = TRUE
            /\ last' = [Handler("change", <<"showNotificationBar">>) EXCEPT
                            !.id = editors[i].id, !.text = text]
       ELSE /\ UNCHANGED <<notice, dirty>>
            /\ last' = [Handler("change", <<>>) EXCEPT !.id = editors[i].id, !.text = text]
    /\ focus' = i
    /\ stats' = Entered(i)
    /\ UNCHANGED <<render_deprecated, model, server, rows, fieldToSelectorMap,
                   selectorToField, idCounter, dialog, net, edited>>

Type(i) == InEditor(i, MaxEdits) /\ \E text \in EditTexts : TypeText(i, text, MaxEdits)

\* The user leaves the editor of field i: the blur handler.
BlurWithin(i, max) ==
    /\ InEditor(i, max)
    /\ \E b \in {blurHandler(editors[i], model)} :
           /\ editors' = [editors EXCEPT ![i].text = b.text]
           /\ model' = b.model
           /\ edited' = (edited \/ b.model # model)
           /\ IF b.shown
              THEN notice' = "unsaved" /\ dirty' = TRUE
              ELSE UNCHANGED <<notice, dirty>>
           /\ last' = [op     |-> "blur",
                       calls  |-> (IF b.shown THEN <<"showNotificationBar">> ELSE <<>>)
                                  \o (IF b.quoted THEN <<"quoted">> ELSE <<>>)
                                  \o (IF b.threw THEN <<"TypeError">> ELSE <<>>),
                       id     |-> editors[i].id,
                       text   |-> editors[i].text,
                       value  |-> b.value,
                       stored |-> b.stored,
                       status |-> 0]
    /\ focus' = 0
    /\ stats' = Entered(i)
    /\ UNCHANGED <<render_deprecated, server, rows, fieldToSelectorMap, selectorToField,
                   idCounter, dialog, net>>

Blur(i) == BlurWithin(i, MaxEdits)

\* The model after the change handler of a select puts option val in key.
selectChange(m, key, val) == SetValue(m, key, JStr(val))

\* The user picks another option of the dropdown of field i.
SelectChange(i) ==
    /\ editors[i].select
    /\ stats.edits < MaxEdits
    /\ \E k \in 1..Len(editors[i].options) :
          LET val == editors[i].options[k]
          IN  /\ val # editors[i].text
              /\ editors' = [editors EXCEPT ![i].text = val]
              /\ model' = selectChange(model, editors[i].id, val)
              /\ edited' = (edited \/ model' # model)
              /\ last' = [Handler("selectChange", <<"showNotificationBar">>) EXCEPT
                              !.id = editors[i].id, !.text = val, !.value = JStr(val),
                              !.stored = TRUE]
    /\ notice' = "unsaved"
    /\ dirty' = TRUE
    /\ stats' = [stats EXCEPT !.edits = @ + 1]
    /\ UNCHANGED <<render_deprecated, server, rows, fieldToSelectorMap, selectorToField,
                   idCounter, focus, dialog, net>>

\* A save request, or the server's answer to one, is in flight.
SaveInFlight == \E msg \in BagToSet(net) : msg.type \in {"save", "saveOk"}

\* OffersSave with the save refused while a save is in flight.
OffersSave_NotSaving == notice = "unsaved" /\ ~SaveInFlight

\* What calls saveView: the notification bar of the unsaved changes.
OffersSave == notice = "unsaved"

\* saveView(), which the notification bar offers: model.save sends the
\* model as it is now.  At most max times.
SaveViewWithin(max) ==
    /\ OffersSave
    /\ stats.saves < max
    /\ net' = net (+) SetToBag({Request("save", model)})
    /\ stats' = [stats EXCEPT !.saves = @ + 1]
    /\ last' = Handler("saveView", <<"model.save">>)
    /\ UNCHANGED <<render_deprecated, model, server, rows, editors, fieldToSelectorMap,
                   selectorToField, idCounter, focus, notice, dialog, dirty, edited>>

SaveView == SaveViewWithin(MaxSaves)

\* What calls revertView: the notification bar of the unsaved changes, and
\* the reset action of the validation dialog.
OffersRevert == notice = "unsaved" \/ dialog.reset

\* revertView(): model.fetch.
RevertView ==
    /\ OffersRevert
    /\ stats.reverts < MaxReverts
    /\ net' = net (+) SetToBag({Request("fetch", <<>>)})
    /\ stats' = [stats EXCEPT !.reverts = @ + 1]
    /\ last' = Handler("revertView", <<"model.fetch">>)
    /\ UNCHANGED <<render_deprecated, model, server, rows, editors, fieldToSelectorMap,
                   selectorToField, idCounter, focus, notice, dialog, dirty, edited>>

(***************************************************************************)
(* The server                                                              *)
(***************************************************************************)

Take(msg) == net (-) SetToBag({msg})
Put(bag, msg) == bag (+) SetToBag({msg})

\* The server persists a saved model and answers with it.
ServerSave(msg) ==
    /\ msg.type = "save"
    /\ server' = msg.payload
    /\ net' = Put(Take(msg), Request("saveOk", msg.payload))
    /\ UNCHANGED <<render_deprecated, model, rows, editors, fieldToSelectorMap,
                   selectorToField, idCounter, focus, notice, dialog, last, dirty,
                   edited, stats>>

\* The server answers a fetch with the model it has.
ServerFetch(msg) ==
    /\ msg.type = "fetch"
    /\ net' = Put(Take(msg), Request("fetchOk", server))
    /\ UNCHANGED <<render_deprecated, model, server, rows, editors, fieldToSelectorMap,
                   selectorToField, idCounter, focus, notice, dialog, last, dirty,
                   edited, stats>>

(***************************************************************************)
(* The callbacks of saveView and revertView                                *)
(***************************************************************************)

\* response.status != 200 on the parsed body of the reindex response.
StatusNot200(response) ==
    LET status == GetMember(response, "status")
    IN  ~(status = JNum(200) \/ status = JStr("200"))

\* reindexSuccessCalls without the render.
reindexSuccessCalls_NoRender(response) ==
    <<"showSavedBar", "analytics.track">>
    \o (IF StatusNot200(response) THEN <<"err_modal.show">> ELSE <<>>)

\* reindexSuccessCalls with the dialog shown whatever the status is.
reindexSuccessCalls_AlwaysModal(response) ==
    <<"render", "showSavedBar", "analytics.track", "err_modal.show">>

\* What the success callback of the reindex request calls, in order.
reindexSuccessCalls(response) ==
    <<"render", "showSavedBar", "analytics.track">>
    \o (IF StatusNot200(response) THEN <<"err_modal.show">> ELSE <<>>)

\* saveError without the test of the status.
saveError_AnyStatus(status, responseText) ==
    LET json_response == JSONParse(responseText)
    IN  IF json_response.ok
        THEN [dialog |-> [shown |-> TRUE, content |-> json_response.v, reset |-> TRUE],
              show   |-> TRUE,
              calls  |-> <<"$.parseJSON", "err_modal.show">>]
        ELSE [dialog |-> NoDialog, show |-> FALSE,
              calls  |-> <<"$.parseJSON", "SyntaxError">>]

\* What the error callback of model.save does for a response of the given
\* status and body: the dialog it shows, and the calls it makes.
saveError(status, responseText) ==
    IF status = 400
    THEN LET json_response == JSONParse(responseText)
         IN  IF json_response.ok
             THEN [dialog |-> [shown |-> TRUE, content |-> json_response.v, reset |-> TRUE],
                   show   |-> TRUE,
                   calls  |-> <<"$.parseJSON", "err_modal.show">>]
             ELSE [dialog |-> NoDialog, show |-> FALSE,
                   calls  |-> <<"$.parseJSON", "SyntaxError">>]
    ELSE [dialog |-> NoDialog, show |-> FALSE, calls |-> <<>>]

\* The success callback of model.save: Backbone has set the model to the
\* server's answer; the reindex request is sent.
SaveSuccess(msg) ==
    /\ msg.type = "saveOk"
    /\ model' = msg.payload
    /\ net' = Put(Take(msg), Request("reindex", <<>>))
    /\ last' = Handler("saveSuccess", <<"model.set", "$.ajax">>)
    /\ UNCHANGED <<render_deprecated, server, rows, editors, fieldToSelectorMap,
                   selectorToField, idCounter, focus, notice, dialog, dirty, edited,
                   stats>>

\* The save fails: the error callback of model.save.
SaveError(msg) ==
    /\ msg.type = "save"
    /\ \E status \in ErrorStatuses, responseText \in ErrorBodies :
          \E r \in {saveError(status, responseText)} :
              /\ dialog' = (IF r.show THEN r.dialog ELSE dialog)
              /\ last' = [Handler("saveError", r.calls) EXCEPT
                              !.status = status, !.text = responseText]
    /\ net' = Take(msg)
    /\ UNCHANGED <<render_deprecated, model, server, rows, editors, fieldToSelectorMap,
                   selectorToField, idCounter, focus, notice, dirty, edited, stats>>

\* The reindex request succeeds: its success callback.
ReindexSuccess(msg) ==
    /\ msg.type = "reindex"
    /\ \E response \in ReindexResponses :
          /\ dialog' = (IF Has(reindexSuccessCalls(response), "err_modal.show")
                        THEN [shown |-> TRUE, content |-> response, reset |-> FALSE]
                        ELSE dialog)
          /\ last' = [Handler("reindexSuccess", reindexSuccessCalls(response)) EXCEPT
                          !.value = response]
          /\ IF Has(reindexSuccessCalls(response), "render")
             THEN RenderNow(model)
             ELSE NoRender /\ UNCHANGED <<editors, focus, dirty, edited>>
          /\ notice' = (IF Has(reindexSuccessCalls(response), "showSavedBar")
                        THEN "saved" ELSE notice)
    /\ net' = Take(msg)
    /\ UNCHANGED <<render_deprecated, model, server, stats>>

\* The reindex request fails: $.ajax was given no error callback.
ReindexError(msg) ==
    /\ msg.type = "reindex"
    /\ net' = Take(msg)
    /\ last' = Handler("reindexError", <<>>)
    /\ UNCHANGED <<render_deprecated, model, server, rows, editors, fieldToSelectorMap,
                   selectorToField, idCounter, focus, notice, dialog, dirty, edited,
                   stats>>

\* fetchSuccessCalls without the render.
fetchSuccessCalls_NoRender == <<"model.set">>

\* What the success callback of model.fetch calls.
fetchSuccessCalls == <<"model.set", "render">>

\* The fetch succeeds: Backbone sets the model to the server's answer, and
\* the success callback renders.
FetchSuccess(msg) ==
    /\ msg.type = "fetchOk"
    /\ model' = msg.payload
    /\ IF Has(fetchSuccessCalls, "render")
       THEN RenderNow(msg.payload)
       ELSE NoRender /\ UNCHANGED <<editors, focus, dirty, edited>>
    /\ net' = Take(msg)
    /\ last' = Handler("fetchSuccess", fetchSuccessCalls)
    /\ UNCHANGED <<render_deprecated, server, notice, dialog, stats>>

\* The fetch fails: model.fetch was given no error callback.
FetchError(msg) ==
    /\ msg.type = "fetch"
    /\ net' = Take(msg)
    /\ last' = Handler("fetchError", <<>>)
    /\ UNCHANGED <<render_deprecated, model, server, rows, editors, fieldToSelectorMap,
                   selectorToField, idCounter, focus, notice, dialog, dirty, edited,
                   stats>>

(***************************************************************************)
(* The specifications                                                      *)
(***************************************************************************)

Next ==
    \/ \E i \in DOMAIN editors : Type(i)
    \/ \E i \in DOMAIN editors : Blur(i)
    \/ \E i \in DOMAIN editors : SelectChange(i)
    \/ SaveView
    \/ RevertView
    \/ \E msg \in BagToSet(net) : ServerSave(msg)
    \/ \E msg \in BagToSet(net) : ServerFetch(msg)
    \/ \E msg \in BagToSet(net) : SaveSuccess(msg)
    \/ \E msg \in BagToSet(net) : SaveError(msg)
    \/ \E msg \in BagToSet(net) : ReindexSuccess(msg)
    \/ \E msg \in BagToSet(net) : ReindexError(msg)
    \/ \E msg \in BagToSet(net) : FetchSuccess(msg)
    \/ \E msg \in BagToSet(net) : FetchError(msg)

\* The view with its user, the network and the server.
Spec == Init /\ [][Next]_vars

\* One commit: the user enters a field of the view just rendered, replaces
\* its text by any text or leaves it as it is, and leaves the field.
CommitType(i) ==
    /\ InEditor(i, 1)
    /\ editors[i].text = editors[i].oldValue
    /\ \E text \in AllTexts : TypeText(i, text, 1)

CommitBlur(i) == BlurWithin(i, 1)

NextCommit ==
    \/ \E i \in DOMAIN editors : CommitType(i)
    \/ \E i \in DOMAIN editors : CommitBlur(i)

SpecCommit == InitCommit /\ [][NextCommit]_vars

\* attachJSONEditor is called once more on the textarea of field i.
AttachAgain(i) ==
    /\ ~editors[i].select
    /\ editors' = [editors EXCEPT ![i] = attachJSONEditor(editors[i])]
    /\ last' = [Handler("attachJSONEditor", <<>>) EXCEPT
                    !.id = editors[i].id, !.text = editors[i].text]
    /\ UNCHANGED <<render_deprecated, model, server, rows, fieldToSelectorMap,
                   selectorToField, idCounter, focus, notice, dialog, net, dirty,
                   edited, stats>>

NextAttach ==
    \/ \E i \in DOMAIN editors : \E text \in EditTexts : TypeText(i, text, 1)
    \/ \E i \in DOMAIN editors : BlurWithin(i, 1)
    \/ \E i \in DOMAIN editors : AttachAgain(i)

\* One edit of a view just rendered, with attachJSONEditor called again on
\* its fields at any time.
SpecAttach == InitCommit /\ [][NextAttach]_vars

\* The view without reverts, the user free to save again while a save is
\* in flight.
InitOverlap == InitFrom({<<ModelSelect, FALSE>>})

SaveAgain == SaveViewWithin(MaxOverlap)

NextOverlap ==
    \/ \E i \in DOMAIN editors : Type(i)
    \/ \E i \in DOMAIN editors : Blur(i)
    \/ \E i \in DOMAIN editors : SelectChange(i)
    \/ SaveAgain
    \/ \E msg \in BagToSet(net) : ServerSave(msg)
    \/ \E msg \in BagToSet(net) : SaveSuccess(msg)
    \/ \E msg \in BagToSet(net) : SaveError(msg)
    \/ \E msg \in BagToSet(net) : ReindexSuccess(msg)
    \/ \E msg \in BagToSet(net) : ReindexError(msg)

SpecOverlap == InitOverlap /\ [][NextOverlap]_vars

\* The view, with every reindex request answered or failed in the end.
ReindexOutcome ==
    \E msg \in BagToSet(net) : ReindexError(msg) \/ ReindexSuccess(msg)

FairSpec == Spec /\ WF_vars(ReindexOutcome)

(***************************************************************************)
(* The commit logic of the blur handler (SpecCommit)                       *)
(***************************************************************************)

Suffixes == {"-number", "-provider", "-approved"}
EndsWith(s, suffix) == Len(s) >= Len(suffix) /\ From(s, Len(s) - Len(suffix) + 1) = suffix

\* The id has -number, -provider or -approved at its end or nowhere.
SuffixOnlyAtEnd(id) ==
    \A suffix \in Suffixes :
        IndexOf(id, suffix) \in {0, Len(id) - Len(suffix) + 1}

\* The step is the blur handler committing a text on a field.
IsCommit == last'.op = "blur" /\ focus' = 0 /\ (focus # 0 \/ stats' # stats)

Quoted(t) == "\"" \o t \o "\""

\* The committed text is not JSON, and quoting it cannot or does not help.
StartsLikeStructure(t) == Ch(t, 1) \in {"{", "[", "'"}
Unparseable(text) ==
    /\ ~JSONParse(Trim(text)).ok
    /\ (StartsLikeStructure(Trim(text)) \/ ~JSONParse(Quoted(Trim(text))).ok)

\* The committed text is not JSON, but is once it is quoted.
BareText(text) ==
    /\ ~JSONParse(Trim(text)).ok
    /\ ~StartsLikeStructure(Trim(text))
    /\ JSONParse(Quoted(Trim(text))).ok

\* The value us_state holds for the sub-field of a state code.
StateSub(m, code, sub) == GetMember(GetMember(Get(m, "us_state").value, code), sub)
StateCodes(m) == {MemberKeys(Get(m, "us_state").value)[i] :
                    i \in 1..Len(MemberKeys(Get(m, "us_state").value))}
Keys(m) == {m[i].k : i \in 1..Len(m)}

\* The value the model holds at the place the field id names.
ValueAt(m, id) ==
    IF \E code \in StateCodes(m), sub \in {"number", "provider", "approved"} :
          id = StateFieldId(code, sub)
    THEN LET p == CHOOSE p \in StateCodes(m) \X {"number", "provider", "approved"} :
                     id = StateFieldId(p[1], p[2])
         IN  StateSub(m, p[1], p[2])
    ELSE IF HasKey(m, id) THEN Get(m, id).value
    ELSE Undef

\* C1 as stated: the value of a committed text is the parsed trimmed text
\* when that is JSON, and otherwise, when the trimmed text does not start
\* with {, [ or ' and is JSON once quoted, the trimmed text itself.
C1_TrimmedTextStored ==
    last.op = "blur" =>
        /\ JSONParse(Trim(last.text)).ok =>
              last.value = JSONParse(Trim(last.text)).v
        /\ BareText(last.text) => last.value = JStr(Trim(last.text))

\* C1, amended: the value of a committed text is the parsed trimmed text
\* when that is JSON; otherwise, when the trimmed text does not start with
\* {, [ or ' and is JSON once quoted, it is the string the quoted text
\* parses to, which is the trimmed text itself when it has no backslash.
\* A value that is stored is then the value at the place the id names, for
\* an id that has a suffix at its end or nowhere.
C1_ParsedOrQuotedStored ==
    last.op = "blur" =>
        /\ JSONParse(Trim(last.text)).ok =>
              last.value = JSONParse(Trim(last.text)).v
        /\ BareText(last.text) =>
              /\ last.value = JSONParse(Quoted(Trim(last.text))).v
              /\ last.value.t = "string"
              /\ IndexOf(Trim(last.text), "\\") = 0 => last.value = JStr(Trim(last.text))
        /\ (last.stored /\ SuffixOnlyAtEnd(last.id)) => ValueAt(model, last.id) = last.value

\* A text with white space around it was committed as a bare string.
C1_Witness ==
    /\ last.op = "blur"
    /\ last.stored
    /\ Has(last.calls, "quoted")
    /\ Trim(last.text) # last.text
    /\ last.value = JStr("a")
    /\ ValueAt(model, last.id) = JStr("a")

\* C2: a text that is not JSON and starts with {, [ or ', or is not JSON
\* when quoted either, is discarded: the model and the dialog stay as they
\* are, nothing is stored, and in the first case the text is not quoted.
C2_UnparseableDiscarded ==
    [][(IsCommit /\ Unparseable(last'.text)) =>
          /\ model' = model
          /\ dialog' = dialog
          /\ ~last'.stored
          /\ last'.value = Undef
          /\ ~Has(last'.calls, "quoted")
          /\ \A i \in DOMAIN editors :
                editors'[i] # editors[i] => editors'[i].text = Trim(last'.text)]_vars

\* A text with a leading single quote was committed and nothing was stored.
C2_Witness ==
    /\ last.op = "blur"
    /\ last.text = "'abc"
    /\ ~last.stored
    /\ model = server
    /\ ~dialog.shown

\* The model differs from the model before at most in the sub-field sub of
\* the state code.
OnlyStateSubChanged(before, after, code, sub) ==
    /\ Keys(after) = Keys(before)
    /\ \A k \in Keys(before) \ {"us_state"} : Get(after, k) = Get(before, k)
    /\ [Get(after, "us_state") EXCEPT !.value = Undef]
          = [Get(before, "us_state") EXCEPT !.value = Undef]
    /\ MemberKeys(Get(after, "us_state").value) = MemberKeys(Get(before, "us_state").value)
    /\ \A c \in StateCodes(before), f \in {"number", "provider", "approved"} :
          (c # code \/ f # sub) => StateSub(after, c, f) = StateSub(before, c, f)
    /\ \A c \in StateCodes(before) :
          LET ea == GetMember(Get(after, "us_state").value, c)
              eb == GetMember(Get(before, "us_state").value, c)
          IN  \A i \in 1..Len(ea.e) :
                 ea.e[i].k \notin {"number", "provider", "approved"} =>
                    GetMember(eb, ea.e[i].k) = ea.e[i].v

\* C3: a commit that stores a value on a field whose id is a state code
\* followed by -number, -provider or -approved changes that sub-field of
\* that state to the value, and nothing else of the model.
C3_StateSubFieldFrame ==
    [][\A code \in StateCodes(model), sub \in {"number", "provider", "approved"} :
          (IsCommit /\ last'.stored /\ last'.id = StateFieldId(code, sub)) =>
              /\ StateSub(model', code, sub) = last'.value
              /\ OnlyStateSubChanged(model, model', code, sub)]_vars

\* A value was stored in the provider of a state whose number is as before.
C3_Witness ==
    /\ last.op = "blur"
    /\ last.stored
    /\ last.id = "NY-provider"
    /\ StateSub(model, "NY", "provider") = JStr("a")
    /\ StateSub(model, "NY", "number") = JNum(2)
    /\ StateSub(model, "NY", "approved") = JBool(FALSE)

\* C4 as stated: a commit that stores a value on a generic field whose id
\* does not end with -number, -provider or -approved overwrites the value
\* of the key of that id and leaves every other key, us_state among them,
\* as it is.
C4_GenericFrame ==
    [][(/\ IsCommit
        /\ last'.stored
        /\ HasKey(model, last'.id)
        /\ \A suffix \in Suffixes : ~EndsWith(last'.id, suffix)) =>
           /\ Get(model', last'.id).value = last'.value
           /\ \A k \in Keys(model) \ {last'.id} : Get(model', k) = Get(model, k)]_vars

(***************************************************************************)
(* The view's notices, saves and reverts (Spec, FairSpec)                  *)
(***************************************************************************)

\* C5 as stated: whenever an edit has changed the model since the last
\* render, the unsaved-changes notice has been shown since then.
C5_EditedImpliesDirty == edited => dirty

PositionIn(calls, c) == CHOOSE i \in 1..Len(calls) : calls[i] = c
ReindexPending == \E msg \in BagToSet(net) : msg.type = "reindex"

\* C6 as stated: whatever the outcome of the reindex request, the view is
\* rendered again and shows the success notice, and is Clean.
C6_EveryOutcomeRenders ==
    last.op \in {"reindexSuccess", "reindexError"} =>
        /\ Has(last.calls, "render")
        /\ Has(last.calls, "showSavedBar")
        /\ notice = "saved"
        /\ ~dirty

\* C6, amended: a save that succeeds sends the reindex request, which is
\* answered or fails in the end; when it is answered, whatever its status,
\* the view is rendered again and shows the success notice, and is Clean;
\* when it fails, none of that happens.
C6_RenderedWhenReindexAnswers ==
    /\ [](last.op = "saveSuccess" => ReindexPending)
    /\ ReindexPending ~> (last.op \in {"reindexSuccess", "reindexError"})
    /\ [](last.op = "reindexSuccess" =>
            /\ Has(last.calls, "render")
            /\ Has(last.calls, "showSavedBar")
            /\ notice = "saved"
            /\ ~dirty
            /\ ~edited
            /\ rows = Render(model, render_deprecated, idCounter - (2 * Len(editors))).rows)
    /\ [](last.op = "reindexError" => last.calls = <<>>)

\* The reindex request was answered with a status other than 200 and the
\* view shows the success notice.
C6_Witness ==
    /\ last.op = "reindexSuccess"
    /\ GetMember(last.value, "status") = JNum(500)
    /\ notice = "saved"
    /\ ~dirty
    /\ model = server
    /\ stats.edits > 0

C8_DialogOn400 ==
    [][\A msg \in BagToSet(net) : SaveError(msg) =>
          /\ last'.status = 400 =>
                /\ dialog'.shown /\ dialog'.reset
                /\ Has(last'.calls, "err_modal.show")
          /\ last'.status # 400 =>
                /\ dialog' = dialog
                /\ ~Has(last'.calls, "err_modal.show")
          /\ UNCHANGED <<model, rows, editors, notice, idCounter, dirty, edited>>]_vars

\* C8, amended: a save that fails with status 400 and a body that is JSON
\* shows the validation dialog with the parsed body and its reset action,
\* which offers revertView; a save that fails with another status, or with
\* a body that is not JSON, shows none; the model, the rows and the notice
\* stay as they are, and nothing is rendered.
C8_DialogOn400WithJsonBody ==
    [][\A msg \in BagToSet(net) : SaveError(msg) =>
          /\ (last'.status = 400 /\ JSONParse(last'.text).ok) =>
                /\ dialog' = [shown |-> TRUE, content |-> JSONParse(last'.text).v,
                              reset |-> TRUE]
                /\ Has(last'.calls, "err_modal.show")
                /\ OffersRevert'
          /\ (last'.status # 400 \/ ~JSONParse(last'.text).ok) =>
                /\ dialog' = dialog
                /\ ~Has(last'.calls, "err_modal.show")
          /\ ~Has(last'.calls, "render")
          /\ ~Has(last'.calls, "showSavedBar")
          /\ UNCHANGED <<model, rows, editors, notice, idCounter, dirty, edited>>]_vars

\* A save failed with status 400: the dialog offers the reset, and the
\* edit is still in the model.
C8_Witness ==
    /\ last.op = "saveError"
    /\ last.status = 400
    /\ dialog.shown
    /\ dialog.reset
    /\ edited
    /\ model # server

\* C9: the success callback of the reindex request renders and shows the
\* success notice, and then shows the error dialog, with the response, if
\* and only if the status of the response is not 200.
C9_DialogIffNot200 ==
    last.op = "reindexSuccess" =>
        /\ Has(last.calls, "render")
        /\ Has(last.calls, "showSavedBar")
        /\ notice = "saved"
        /\ Has(last.calls, "err_modal.show") <=> GetMember(last.value, "status") # JNum(200)
        /\ Has(last.calls, "err_modal.show") =>
              /\ PositionIn(last.calls, "render") < PositionIn(last.calls, "err_modal.show")
              /\ PositionIn(last.calls, "showSavedBar")
                    < PositionIn(last.calls, "err_modal.show")
              /\ dialog = [shown |-> TRUE, content |-> last.value, reset |-> FALSE]

\* The response had no status 200 and the dialog shows it.
C9_Witness ==
    /\ last.op = "reindexSuccess"
    /\ GetMember(last.value, "status") = JNum(500)
    /\ dialog.shown
    /\ dialog.content = last.value
    /\ notice = "saved"

GenericRows == {i \in DOMAIN rows : rows[i].kind = "generic"}

\* C10: the generic rows are the rows of the keys other than us_state that
\* are not deprecated, or of all of them when render_deprecated is set,
\* one row each.
C10_GenericRowsAreVisibleKeys ==
    /\ {rows[i].key : i \in GenericRows}
          = {k \in Keys(model) \ {"us_state"} :
                render_deprecated \/ ~Get(model, k).deprecated}
    /\ \A i, j \in GenericRows : rows[i].key = rows[j].key => i = j

\* The view was rendered again with the flag set, and shows a deprecated key.
C10_Witness ==
    /\ last.op \in {"reindexSuccess", "fetchSuccess"}
    /\ render_deprecated
    /\ \E i \in GenericRows : Get(model, rows[i].key).deprecated

(***************************************************************************)
(* The id maps (Spec)                                                      *)
(***************************************************************************)

\* The step renders the view again.
RendersAgain ==
    \E msg \in BagToSet(net) : ReindexSuccess(msg) \/ FetchSuccess(msg)

\* The ids of the key elements of the rows.
RowKeyIds == UNION {{rows[i].keyIds[j] : j \in DOMAIN rows[i].keyIds} : i \in DOMAIN rows}

\* C11: selectorToField holds the ids of the key elements of the rows of the
\* last render and no other, and fieldToSelectorMap names only those; a
\* render takes its ids from above the counter, which never goes down, so
\* that no id of an earlier render is in the maps or is generated again.
C11_MapsHoldOnlyLastRender ==
    /\ [](/\ DOMAIN selectorToField = RowKeyIds
          /\ \A f \in DOMAIN fieldToSelectorMap :
                fieldToSelectorMap[f] \in DOMAIN selectorToField
          /\ \A x \in DOMAIN selectorToField :
                selectorToField[x] \in DOMAIN fieldToSelectorMap)
    /\ [][/\ idCounter' >= idCounter
          /\ RendersAgain =>
                /\ DOMAIN selectorToField' \cap DOMAIN selectorToField = {}
                /\ DOMAIN selectorToField' \subseteq
                      {UniqueId("policy_key_", n) : n \in (idCounter + 1)..idCounter'}
                /\ \A i \in DOMAIN rows' : \A j \in DOMAIN rows'[i].valueIds :
                      rows'[i].valueIds[j] \in
                         {UniqueId("policy_value_", n) : n \in (idCounter + 1)..idCounter'}]_vars

\* The view was rendered again: the id of the first render resolves to no key.
C11_Witness ==
    /\ last.op = "fetchSuccess"
    /\ DOMAIN selectorToField # {}
    /\ "policy_key_1" \notin DOMAIN selectorToField
    /\ \A f \in DOMAIN fieldToSelectorMap : fieldToSelectorMap[f] # "policy_key_1"

(***************************************************************************)
(* attachJSONEditor called again (SpecAttach)                              *)
(***************************************************************************)

\* C12: every value field that is a textarea has one CodeMirror editor, and
\* a select has none; attachJSONEditor on a field that has its editor
\* changes nothing of the field, the model or the view, and the blur that
\* follows stores its value once, as without the call.
C12_AttachIsIdempotent ==
    /\ [](\A i \in DOMAIN editors :
             /\ editors[i].cm = (IF editors[i].select THEN 0 ELSE 1)
             /\ ~editors[i].select => attachJSONEditor(editors[i]) = editors[i]
             /\ attachJSONEditor(attachJSONEditor(NewEditor(editors[i].id, FALSE,
                                                            editors[i].text, <<>>)))
                   = attachJSONEditor(NewEditor(editors[i].id, FALSE, editors[i].text, <<>>)))
    /\ [][\A i \in DOMAIN editors : AttachAgain(i) =>
             /\ editors' = editors
             /\ UNCHANGED <<model, rows, fieldToSelectorMap, selectorToField, notice,
                            focus, dirty, edited>>]_vars

\* attachJSONEditor was called on a field whose text the user had changed:
\* the field has one editor, and the text it was rendered with.
C12_Witness ==
    /\ last.op = "attachJSONEditor"
    /\ \E i \in DOMAIN editors :
          /\ editors[i].id = last.id
          /\ editors[i].cm = 1
          /\ editors[i].text # editors[i].oldValue
          /\ focus = i

(***************************************************************************)
(* The order of the rows (SpecCommit)                                      *)
(***************************************************************************)

\* The rows of the kind are in non-decreasing order of the name they show.
RowsSorted(kind) ==
    \A i, j \in DOMAIN rows :
        (i < j /\ rows[i].kind = kind /\ rows[j].kind = kind) =>
            ~StringLess(rows[j].display_name, rows[i].display_name)

StateRowsLast ==
    \A i, j \in DOMAIN rows :
        (rows[i].kind = "generic" /\ rows[j].kind = "us_state") => i < j

\* C13 as stated: the generic rows are in non-decreasing order of their
\* display_name, the state rows in non-decreasing order of the display name
\* of their state code, and every state row comes after every generic row.
C13_RowsInDisplayOrder ==
    /\ RowsSorted("generic")
    /\ RowsSorted("us_state")
    /\ StateRowsLast

(***************************************************************************)
(* Saves that overlap (SpecOverlap)                                        *)
(***************************************************************************)

SaveRequests == {msg \in BagToSet(net) : msg.type = "save"}

\* C14: while a save is in flight the notification bar still offers
\* saveView, which sends one more request beside the one in flight; and an
\* edit made then changes the model in the step of the edit, as it does at
\* any other time, and leaves the requests in flight as they are.
C14_NoSavingState ==
    /\ []((SaveInFlight /\ notice = "unsaved" /\ stats.saves < MaxOverlap) =>
             ENABLED SaveAgain)
    /\ [][(SaveInFlight /\ SaveAgain) =>
             /\ \E msg \in BagToSet(net') :
                   /\ msg.type = "save"
                   /\ msg.payload = model
                   /\ CopiesIn(msg, net') = CopiesIn(msg, net) + 1
             /\ \A msg \in BagToSet(net) : CopiesIn(msg, net') >= CopiesIn(msg, net)]_vars
    /\ [][\A i \in DOMAIN editors :
             (SaveInFlight /\ (Blur(i) \/ SelectChange(i))) =>
                 /\ net' = net
                 /\ ~editors[i].select =>
                       /\ model' = blurHandler(editors[i], model).model
                       /\ last'.stored => ValueAt(model', last'.id) = last'.value
                 /\ editors[i].select =>
                       Get(model', editors[i].id).value = JStr(editors'[i].text)]_vars

\* Two save requests are outstanding at once, the second with an edit made
\* while the first was in flight.
C14_Witness ==
    /\ \E first, second \in SaveRequests :
          /\ first.payload # second.payload
          /\ second.payload = model
    /\ stats.saves = 2
    /\ last.op = "saveView"

(***************************************************************************)
(* What the success notice is shown with (Spec)                            *)
(***************************************************************************)

\* The fields and the texts a render of model m shows.
Shown(m) ==
    LET r == Render(m, render_deprecated, 0).editors
    IN  [i \in DOMAIN r |-> <<r[i].id, r[i].text>>]

Displayed == [i \in DOMAIN editors |-> <<editors[i].id, editors[i].text>>]

\* C15 as stated: when the success notice is shown, the render that goes
\* with it displays the values the server has persisted.
C15_SavedNoticeShowsPersisted ==
    last.op = "reindexSuccess" => Displayed = Shown(server)

(***************************************************************************)
(* The two id maps against each other (SpecCommit)                         *)
(***************************************************************************)

\* C16 as stated: after every render the two id maps are inverses of each
\* other, whatever the keys of the model.
C16_MapsAreInverses ==
    /\ \A f \in DOMAIN fieldToSelectorMap :
          /\ fieldToSelectorMap[f] \in DOMAIN selectorToField
          /\ selectorToField[fieldToSelectorMap[f]] = f
    /\ \A x \in DOMAIN selectorToField :
          /\ selectorToField[x] \in DOMAIN fieldToSelectorMap
          /\ fieldToSelectorMap[selectorToField[x]] = x

(***************************************************************************)
(* Render, then commit (SpecCommit)                                        *)
(***************************************************************************)

\* The step commits field i with the text it was rendered with.
CommitsAsRendered(i) ==
    /\ BlurWithin(i, 1)
    /\ editors[i].text = editors[i].oldValue

\* C17 as stated: the commit of a field whose text is the text render gave
\* it leaves the model as it is, whatever value the field holds.
C17_RenderCommitRoundTrip ==
    [][\A i \in DOMAIN editors : CommitsAsRendered(i) => model' = model]_vars

(***************************************************************************)
(* The approved value of a state row (SpecCommit)                          *)
(***************************************************************************)

StateRows == {i \in DOMAIN rows : rows[i].kind = "us_state"}

\* The editor of the approved field of a state code.
ApprovedEditors(code) ==
    {i \in DOMAIN editors :
        /\ editors[i].id = StateFieldId(code, "approved")
        /\ \E j \in StateRows : rows[j].key = code /\ i > Len(editors) - 3 * Cardinality(StateRows)}

\* C18: the approved value of every state row of the view, which was
\* rendered from the model the view was constructed with, is true when
\* that model's approved is absent, null or the empty string, and is the
\* model's approved otherwise; the field shows that value.  The render
\* leaves the model as it was constructed.
C18_ApprovedDefaultsToTrue ==
    /\ \A i \in StateRows :
          LET stored == StateSub(server, rows[i].key, "approved")
          IN  /\ rows[i].valueApproved =
                    (IF stored = Undef \/ stored = JNull \/ stored = JStr("")
                     THEN JBool(TRUE) ELSE stored)
              /\ \A k \in ApprovedEditors(rows[i].key) :
                    editors[k].oldValue = TemplateText(rows[i].valueApproved)
    /\ last.op = "initialize" => model = server

\* The rows of a stored false, shown as false, and of a stored empty
\* string, shown as true, in a model that still holds the empty string.
C18_Witness ==
    /\ last.op = "initialize"
    /\ \E i, j \in StateRows :
          /\ StateSub(model, rows[i].key, "approved") = JBool(FALSE)
          /\ rows[i].valueApproved = JBool(FALSE)
          /\ StateSub(model, rows[j].key, "approved") = JStr("")
          /\ rows[j].valueApproved = JBool(TRUE)

====
